---- MODULE Spec2Model ----
(***************************************************************************)
(* Model of the cache reader, src/lib/bcc/CacheReader.cpp.                 *)
(*                                                                         *)
(* One CacheReader object opens one cache file.  The file is a byte       *)
(* array plus the header record that readHeader overlays on its first      *)
(* bytes; the sections are overlaid on the bytes the header points at, as  *)
(* the code does with reinterpret_cast (native layout, little endian).     *)
(* Every step of readCacheFile is one action; pc is the position inside    *)
(* the && chain of lines 68-82.                                            *)
(*                                                                         *)
(* Widths are scaled: off_t and size_t are OffBits wide instead of 32, the *)
(* header is sizeof_OBCC_Header bytes, the context CtxWords words, a page  *)
(* pagesize bytes.  The record layouts come from the field names the code  *)
(* uses; bcc_cache.h, CacheReader.h, FileHandle and allocateContext are    *)
(* not part of the sources.                                                *)
(***************************************************************************)
EXTENDS Integers, Sequences, FiniteSets, TLC

(***************************************************************************)
(* Bounds of the model.                                                    *)
(***************************************************************************)
OffBits == 9        \* width of off_t / size_t / ssize_t in the model
CtxWords == 3       \* BCC_CONTEXT_SIZE / sizeof(uint32_t)
MaxCalls == 2       \* readCacheFile calls on one CacheReader
MaxInputs == 2      \* input files on the command line of bcc_compat

(***************************************************************************)
(* Program constants.                                                      *)
(***************************************************************************)
sizeof_int == 4
sizeof_size_t == 4
sizeof_off_t == 4
sizeof_ptr == 4
sizeof_uint32 == 4
SHA1_LEN == 20
sizeof_OBCC_Header == 8
pagesize == 8
BCC_CONTEXT_SIZE == CtxWords * sizeof_uint32

OBCC_MAGIC == "oBCC"
OBCC_VERSION == "001"

(***************************************************************************)
(* Machine integers.                                                       *)
(***************************************************************************)
RECURSIVE Pow2(_)
Pow2(n) == IF n = 0 THEN 1 ELSE 2 * Pow2(n - 1)

OFF_MAX == Pow2(OffBits - 1) - 1
OFF_MIN == 0 - Pow2(OffBits - 1)
SIZE_MAX == Pow2(OffBits) - 1

\* (off_t)x for an unsigned x of the same width: two's complement.
ToOff(x) == IF x > OFF_MAX THEN x - Pow2(OffBits) ELSE x

\* A signed sum that leaves the range of off_t is undefined behaviour.
Overflows(x) == x > OFF_MAX \/ x < OFF_MIN

\* C's % on signed operands truncates towards zero: zero exactly for multiples.
IsMultiple(x, m) == (IF x < 0 THEN 0 - x ELSE x) % m = 0

RECURSIVE XorBits(_, _, _)
XorBits(a, b, n) ==
  IF n = 0 THEN 0
  ELSE ((a + b) % 2) + 2 * XorBits(a \div 2, b \div 2, n - 1)

\* a ^ b on uint32_t, a word being its four bytes.
Xor32(a, b) == [i \in 1..4 |-> XorBits(a[i], b[i], 8)]

Zero32 == <<0, 0, 0, 0>>

(***************************************************************************)
(* Byte buffers.  Positions are 0-based, as pointer offsets are.           *)
(***************************************************************************)
InBuf(buf, pos, n) == pos >= 0 /\ pos + n <= Len(buf)

ByteAt(buf, pos) == buf[pos + 1]

\* A native 32-bit little-endian word at byte position pos, as a number.
WordAt(buf, pos) ==
  ByteAt(buf, pos) + 256 * ByteAt(buf, pos + 1)
    + 65536 * ByteAt(buf, pos + 2) + 16777216 * ByteAt(buf, pos + 3)

\* The same word read as a signed integer.
SignedWordAt(buf, pos) ==
  ByteAt(buf, pos) + 256 * ByteAt(buf, pos + 1) + 65536 * ByteAt(buf, pos + 2)
    + 16777216 * (IF ByteAt(buf, pos + 3) >= 128 THEN ByteAt(buf, pos + 3) - 256
                  ELSE ByteAt(buf, pos + 3))

LE32(n) ==
  << n % 256, (n \div 256) % 256, (n \div 65536) % 256, (n \div 16777216) % 256 >>

\* Bytes [from, from+n) of buf.
Slice(buf, from, n) == [i \in 1..n |-> buf[from + i]]

Zeros(n) == [i \in 1..n |-> 0]

(***************************************************************************)
(* Strings are byte sequences; std::map orders its keys bytewise.          *)
(***************************************************************************)
RECURSIVE StrLess(_, _)
StrLess(s, t) ==
  IF t = <<>> THEN FALSE
  ELSE IF s = <<>> THEN TRUE
  ELSE IF Head(s) # Head(t) THEN Head(s) < Head(t)
  ELSE StrLess(Tail(s), Tail(t))

NameA == <<97>>
NameB == <<98>>
NameC == <<99>>

(***************************************************************************)
(* The well-formed cache file the inputs are derived from: the sections    *)
(* follow the header back to back, the context sits on the next page.      *)
(***************************************************************************)
Sections ==
  { "str_pool", "depend_tab", "reloc_tab", "export_var_list",
    "export_func_list", "pragma_list", "func_table" }

ShaA == [i \in 1..SHA1_LEN |-> i]
ShaB == [i \in 1..SHA1_LEN |-> 40 + i]

\* OBCC_StringPool: count, list[count] of (length, offset), then the characters.
BasePoolBytes ==
  LE32(2) \o LE32(1) \o LE32(20) \o LE32(1) \o LE32(22) \o <<97, 0, 98, 0>>

\* OBCC_DependencyTable: count, table[count] of (res_name_strp_index, res_type, sha1).
BaseDependBytes ==
  LE32(2) \o LE32(0) \o LE32(1) \o ShaA \o LE32(1) \o LE32(2) \o ShaB

BaseRelocBytes == LE32(0)

\* OBCC_ExportVarList / OBCC_ExportFuncList: count, list[count] of addresses.
BaseExportVarBytes == LE32(1) \o LE32(64)
BaseExportFuncBytes == LE32(1) \o LE32(72)

\* OBCC_PragmaList: count, list[count] of (key_strp_index, value_strp_index).
BasePragmaBytes == LE32(1) \o LE32(0) \o LE32(1)

\* OBCC_FuncTable: count, table[count] of (name_strp_index, cached_addr, size).
BaseFuncBytes ==
  LE32(2) \o LE32(0) \o LE32(16) \o LE32(4) \o LE32(1) \o LE32(32) \o LE32(8)

BaseContextWords == [i \in 1..CtxWords |-> LE32(1027 * i + 1)]

RECURSIVE WordsToBytes(_)
WordsToBytes(ws) ==
  IF ws = <<>> THEN <<>> ELSE Head(ws) \o WordsToBytes(Tail(ws))

BaseSectionBytes(sec) ==
  CASE sec = "str_pool" -> BasePoolBytes
    [] sec = "depend_tab" -> BaseDependBytes
    [] sec = "reloc_tab" -> BaseRelocBytes
    [] sec = "export_var_list" -> BaseExportVarBytes
    [] sec = "export_func_list" -> BaseExportFuncBytes
    [] sec = "pragma_list" -> BasePragmaBytes
    [] sec = "func_table" -> BaseFuncBytes

SectionOrder ==
  << "str_pool", "depend_tab", "reloc_tab", "export_var_list",
     "export_func_list", "pragma_list", "func_table" >>

RECURSIVE BaseOffsetAt(_)
BaseOffsetAt(k) ==
  IF k = 1 THEN sizeof_OBCC_Header
  ELSE BaseOffsetAt(k - 1) + Len(BaseSectionBytes(SectionOrder[k - 1]))

BaseOffset(sec) ==
  BaseOffsetAt(CHOOSE k \in 1..Len(SectionOrder) : SectionOrder[k] = sec)

BaseSectionsEnd == BaseOffsetAt(Len(SectionOrder)) + Len(BaseFuncBytes)

RoundUp(x, m) == ((x + m - 1) \div m) * m

BaseContextOffset == RoundUp(BaseSectionsEnd, pagesize)

BaseFileSize == BaseContextOffset + BCC_CONTEXT_SIZE

BaseBytes ==
  Zeros(sizeof_OBCC_Header)
    \o BasePoolBytes \o BaseDependBytes \o BaseRelocBytes
    \o BaseExportVarBytes \o BaseExportFuncBytes \o BasePragmaBytes
    \o BaseFuncBytes
    \o Zeros(BaseContextOffset - BaseSectionsEnd)
    \o WordsToBytes(BaseContextWords)

\* The parity word the cache writer stores: the XOR of all context words.
RECURSIVE ParityOf(_)
ParityOf(ws) == IF ws = <<>> THEN Zero32 ELSE Xor32(Head(ws), ParityOf(Tail(ws)))

BaseContextAddr == 8 * pagesize

BaseHeader ==
  [ magic |-> OBCC_MAGIC,
    version |-> OBCC_VERSION,
    endianness |-> "e",
    sizeof_off_t |-> sizeof_off_t,
    sizeof_size_t |-> sizeof_size_t,
    sizeof_ptr_t |-> sizeof_ptr,
    context_cached_addr |-> BaseContextAddr,
    context_offset |-> BaseContextOffset,
    context_parity_checksum |-> ParityOf(BaseContextWords),
    offset |-> [s \in Sections |-> BaseOffset(s)],
    size |-> [s \in Sections |-> Len(BaseSectionBytes(s))] ]

\* A file: whether its descriptor is open, its size, the header record the
\* first bytes overlay, and the bytes.
BaseFile ==
  [ fdValid |-> TRUE,
    size |-> BaseFileSize,
    header |-> BaseHeader,
    bytes |-> BaseBytes ]

\* The dependencies the caller registered, name -> (type, sha1).
BaseDeps ==
  [ n \in {NameA, NameB} |->
      IF n = NameA THEN [type |-> 1, sha1 |-> ShaA]
      ELSE [type |-> 2, sha1 |-> ShaB] ]


(***************************************************************************)
(* The inputs: the well-formed file with one field of the header, one      *)
(* byte of a section or one bit of the context changed, truncated files,   *)
(* a file as large as off_t allows, and for the caller's side the          *)
(* well-formed dependencies with one of them changed.                      *)
(***************************************************************************)
NoFile == [fdValid |-> FALSE, size |-> 0, header |-> BaseHeader, bytes |-> <<>>]

SetByte(buf, pos, v) == [buf EXCEPT ![pos + 1] = v]

HeaderScalarVariants ==
  { [BaseHeader EXCEPT !.magic = "xBCC"],
    [BaseHeader EXCEPT !.version = "002"],
    [BaseHeader EXCEPT !.endianness = "E"],
    [BaseHeader EXCEPT !.endianness = "x"],
    [BaseHeader EXCEPT !.sizeof_off_t = 8],
    [BaseHeader EXCEPT !.sizeof_size_t = 8],
    [BaseHeader EXCEPT !.sizeof_ptr_t = 8],
    [BaseHeader EXCEPT !.context_cached_addr = BaseContextAddr + 1],
    [BaseHeader EXCEPT !.context_cached_addr = BaseContextAddr + sizeof_int],
    [BaseHeader EXCEPT !.context_parity_checksum = Zero32],
    [BaseHeader EXCEPT !.context_parity_checksum = Xor32(@, LE32(1))],
    [BaseHeader EXCEPT !.context_parity_checksum = Xor32(@, <<0, 0, 0, 128>>)] }

ContextOffsetVariants(fileSize) ==
  { [BaseHeader EXCEPT !.context_offset = o] :
      o \in { 0, 0 - pagesize, BaseContextOffset + sizeof_int,
              BaseContextOffset + pagesize, BaseContextOffset - pagesize,
              fileSize - (fileSize % pagesize) } }

SectionOffsetVariants(fileSize) ==
  UNION { { [BaseHeader EXCEPT !.offset[s] = o] :
              o \in { 0 - sizeof_int, BaseOffset(s) + 1, BaseOffset(s) + 2,
                      fileSize, fileSize + 1,
                      fileSize - (fileSize % sizeof_int) + sizeof_int,
                      fileSize - (fileSize % sizeof_int) - sizeof_int } }
          : s \in Sections }

SectionSizeVariants(fileSize) ==
  UNION { { [BaseHeader EXCEPT !.size[s] = z] :
              z \in { 0, sizeof_size_t - 1, sizeof_size_t,
                      Len(BaseSectionBytes(s)) + sizeof_int,
                      fileSize, OFF_MAX - (OFF_MAX % sizeof_int), OFF_MAX + 1,
                      SIZE_MAX } }
          : s \in Sections }

HeaderVariants(fileSize) ==
  HeaderScalarVariants \cup ContextOffsetVariants(fileSize)
    \cup SectionOffsetVariants(fileSize) \cup SectionSizeVariants(fileSize)

\* The positions of a section whose bytes are varied: every byte of a
\* character or fingerprint, the low byte of every word.
PoolPositions == {0, 4, 8, 12, 16} \cup {20, 21, 22, 23}
DependRecord == sizeof_size_t + sizeof_uint32 + SHA1_LEN
DependPositions ==
  {0} \cup UNION { { 4 + DependRecord * r, 8 + DependRecord * r }
                     \cup { 12 + DependRecord * r + b : b \in 0..(SHA1_LEN - 1) }
                   : r \in 0..1 }
PragmaPositions == {0, 4, 8}
FuncPositions == {0, 4, 8, 12, 16, 20, 24}

VariedPositions(sec) ==
  CASE sec = "str_pool" -> PoolPositions
    [] sec = "depend_tab" -> DependPositions
    [] sec = "pragma_list" -> PragmaPositions
    [] sec = "func_table" -> FuncPositions
    [] OTHER -> {}

ByteValues == {0, 1, 3}

ByteVariants ==
  UNION { { [BaseFile EXCEPT !.bytes = SetByte(@, BaseOffset(s) + p, v)] :
              p \in VariedPositions(s), v \in ByteValues }
          : s \in Sections }

FlipBit(b, k) == IF (b \div Pow2(k)) % 2 = 1 THEN b - Pow2(k) ELSE b + Pow2(k)

\* The file with bit k of the byte at pos flipped.
FlipFileBit(f, pos, k) ==
  [f EXCEPT !.bytes = SetByte(@, pos, FlipBit(ByteAt(@, pos), k))]

ContextBitVariants ==
  { FlipFileBit(BaseFile, BaseContextOffset + b, k) :
      b \in 0..(BCC_CONTEXT_SIZE - 1), k \in 0..7 }

Truncated(n) == [BaseFile EXCEPT !.size = n, !.bytes = SubSeq(@, 1, n)]

TruncatedVariants ==
  { Truncated(n) :
      n \in { 0, sizeof_OBCC_Header - 1, sizeof_OBCC_Header, BCC_CONTEXT_SIZE - 1,
              BCC_CONTEXT_SIZE, BaseContextOffset, BaseFileSize - 1 } }

\* The well-formed file padded up to the largest size off_t can hold.
BigFile ==
  [BaseFile EXCEPT !.size = OFF_MAX, !.bytes = @ \o Zeros(OFF_MAX - BaseFileSize)]

BigHeaderVariants ==
  { [BaseHeader EXCEPT !.context_offset = OFF_MAX - (OFF_MAX % pagesize)] }
    \cup UNION { { [BaseHeader EXCEPT !.size[s] = z] :
                     z \in { OFF_MAX - (OFF_MAX % sizeof_int),
                             OFF_MAX - BaseOffset(s) } }
                 : s \in Sections }

Files ==
  { BaseFile, BigFile, [BaseFile EXCEPT !.fdValid = FALSE], NoFile }
    \cup { [BaseFile EXCEPT !.header = h] : h \in HeaderVariants(BaseFileSize) }
    \cup { [BigFile EXCEPT !.header = h] : h \in BigHeaderVariants }
    \cup ByteVariants
    \cup ContextBitVariants
    \cup TruncatedVariants

ShaBump(sha, k) == [sha EXCEPT ![k] = (@ + 1) % 256]

DepsVariants ==
  { [n \in {NameA} |-> BaseDeps[n]],
    [n \in {NameA, NameB, NameC} |->
       IF n = NameC THEN [type |-> 3, sha1 |-> ShaB] ELSE BaseDeps[n]],
    [n \in {NameA, NameC} |-> IF n = NameC THEN BaseDeps[NameB] ELSE BaseDeps[n]],
    [n \in {} |-> BaseDeps[NameA]],
    [n \in {NameA, NameC} |->
       IF n = NameC THEN [type |-> 3, sha1 |-> ShaA] ELSE BaseDeps[n]],
    [BaseDeps EXCEPT ![NameB] = [type |-> 3, sha1 |-> ShaA]] }
    \cup { [BaseDeps EXCEPT ![n].type = 3] : n \in {NameA, NameB} }
    \cup { [BaseDeps EXCEPT ![n].sha1 = ShaBump(@, k)] :
             n \in {NameA, NameB}, k \in 1..SHA1_LEN }

\* What one reader is given: a file and the registered dependencies.
Inputs ==
  { [file |-> f, deps |-> BaseDeps] : f \in Files }
    \cup { [file |-> BaseFile, deps |-> d] : d \in DepsVariants }

\* The inputs a reader is followed on through more than one call: the
\* well-formed file, a file the header check rejects, and the well-formed
\* file opened with a dependency missing.
RepeatedInputs ==
  { [file |-> BaseFile, deps |-> BaseDeps],
    [file |-> [BaseFile EXCEPT !.header.version = "002"], deps |-> BaseDeps],
    [file |-> BaseFile, deps |-> [n \in {NameA} |-> BaseDeps[n]]] }

\* How many calls a reader given this input is followed through.
CallLimit(in) == IF in \in RepeatedInputs THEN MaxCalls ELSE 1

(***************************************************************************)
(* The state of one CacheReader and of what surrounds it.                  *)
(***************************************************************************)
VARIABLES
  calls,                \* the readCacheFile calls begun on this reader
  mFile,                \* the FileHandle the reader works on
  filePos,              \* the position of the file descriptor
  mDependencies,        \* name -> (type, sha1), iterated in key order
  mFileSize,
  mpHeader,             \* pointers are indices into heap, 0 is NULL
  mpCachedDependTable,
  mpPragmaList,
  mpFuncTable,
  mpResult,             \* the ScriptCached object mpResult owns
  heap,                 \* malloc'ed blocks: what they hold, how often freed
  pc,                   \* position of readCacheFile in its chain of steps
  retval,               \* what readCacheFile returned
  trace,                \* the steps this call ran, each with its result
  ioLog,                \* the malloc, seek, read and load operations of this call
  checked,              \* the sections CHECK_SECTION_OFFSET accepted
  mLog                  \* the LOGE messages of this call

reader ==
  << calls, mFile, filePos, mDependencies, mFileSize, mpHeader, mpCachedDependTable,
     mpPragmaList, mpFuncTable, mpResult, heap, pc, retval, trace, ioLog,
     checked, mLog >>

(***************************************************************************)
(* The state of one run of the bcc_compat tool, tools/bcc_compat/Main.cpp. *)
(***************************************************************************)
VARIABLES
  OptInputFilenames,    \* the command line: the input bitcode files, one or more
  OptOutputFilename,    \* -o
  OptRuntimePath,       \* -rt-path
  OptC,                 \* -c
  OptPIC,               \* -fPIC
  OptOptLevel,          \* -O
  mainPc,               \* position of main
  exitStatus,           \* what main returned
  rscdConfig,           \* the configuration the compiler driver was given
  OutputFilename,       \* main's local
  fileIndex,            \* i of the loop in PrepareRSScript
  result,               \* result of PrepareRSScript, an index into objects, 0 is NULL
  s,                    \* main's local, the script PrepareRSScript returned
  objects,              \* the Source and RSScript objects created, live or deleted
  loaded,               \* the files Source::CreateFromFile was called on, in order
  built,                \* the calls of RSCompilerDriver::build
  mainTrace,            \* the steps of main that ran, each with its result
  errs                  \* the messages written to llvm::errs()

options ==
  << OptInputFilenames, OptOutputFilename, OptRuntimePath, OptC, OptPIC, OptOptLevel >>

driver ==
  << options, mainPc, exitStatus, rscdConfig, OutputFilename, fileIndex, result, s,
     objects, loaded, built, mainTrace, errs >>

vars == << reader, driver >>

Steps ==
  << "checkFileSize", "readHeader", "checkHeader", "checkMachineIntType",
     "checkSectionOffsetAndSize", "readStringPool", "checkStringPool",
     "readDependencyTable", "checkDependency", "readExportVarList",
     "readExportFuncList", "readPragmaList", "readFuncTable", "readContext",
     "checkContext" >>

StepIndex(step) == CHOOSE k \in 1..Len(Steps) : Steps[k] = step

\* AfterStep with & in place of &&: a false operand does not end the chain.
AfterStepEager(step, ok) ==
  IF StepIndex(step) < Len(Steps) THEN Steps[StepIndex(step) + 1] ELSE "returned"

\* operator && of lines 68-82: the next operand is evaluated only after a
\* true one, and the value of the chain is returned at line 98.
AfterStep(step, ok) ==
  IF ok /\ StepIndex(step) < Len(Steps) THEN Steps[StepIndex(step) + 1]
  ELSE "returned"

NoResult ==
  [ present |-> FALSE, mpStringPoolRaw |-> 0, mStringPool |-> <<>>,
    mpExportVars |-> 0, mpExportFuncs |-> 0, mPragmas |-> <<>>,
    mFunctions |-> <<>>, mContext |-> 0, context |-> <<>> ]

NewResult == [NoResult EXCEPT !.present = TRUE]

NotReturned == [status |-> "none", obj |-> NoResult]
ReturnedNull == [status |-> "NULL", obj |-> NoResult]
ReturnedArtifact(obj) == [status |-> "artifact", obj |-> obj]

\* malloc: a new live block.
Malloc(h, kind, data) ==
  Append(h, [kind |-> kind, live |-> TRUE, frees |-> 0, data |-> data])

\* free(p) for a pointer that is not NULL.
Free(h, p) == [h EXCEPT ![p].live = FALSE, ![p].frees = @ + 1]

\* if (p) { free(p); }
FreeIfSet(h, p) == IF p = 0 THEN h ELSE Free(h, p)

\* One operation on the heap, the file or the context loader.
IOEntry(op, what, offset, size, addr) ==
  [op |-> op, what |-> what, offset |-> offset, size |-> size, addr |-> addr]

LogIO(op, what, offset, size) == Append(ioLog, IOEntry(op, what, offset, size, 0))

\* The empty std::string.
EmptyString == [abs |-> FALSE, dir |-> <<>>, stem |-> "", ext |-> ""]

\* A compiler driver before setConfig.
NoConfig == [set |-> FALSE, reloc |-> "unset", opt |-> "unset"]

NotExited == -1

\* The tool not run: a CacheReader is used by other programs than bcc_compat.
NoRun ==
  /\ OptInputFilenames = <<>>
  /\ OptOutputFilename = EmptyString
  /\ OptRuntimePath = EmptyString
  /\ OptC = FALSE
  /\ OptPIC = FALSE
  /\ OptOptLevel = "2"
  /\ mainPc = "not run"
  /\ exitStatus = NotExited
  /\ rscdConfig = NoConfig
  /\ OutputFilename = EmptyString
  /\ fileIndex = 0
  /\ result = 0
  /\ s = 0
  /\ objects = <<>>
  /\ loaded = <<>>
  /\ built = <<>>
  /\ mainTrace = <<>>
  /\ errs = <<>>

\* A reader before readCacheFile is called.  CacheReader.cpp never assigns
\* mFile; the steps use it as the handle the call was given, and so does
\* the model.
CacheReaderInit(in) ==
  /\ mFile = in.file
  /\ mDependencies = in.deps
  /\ calls = 0
  /\ filePos = 0
  /\ mFileSize = 0
  /\ mpHeader = 0
  /\ mpCachedDependTable = 0
  /\ mpPragmaList = 0
  /\ mpFuncTable = 0
  /\ mpResult = NoResult
  /\ heap = <<>>
  /\ pc = "idle"
  /\ retval = NotReturned
  /\ trace = <<>>
  /\ ioLog = <<>>
  /\ checked = {}
  /\ mLog = <<>>

Init ==
  /\ \E in \in Inputs : CacheReaderInit(in)
  /\ NoRun

\* bcc_compat creates no CacheReader: the reader's variables stay as they are.
NoReader == CacheReaderInit([file |-> BaseFile, deps |-> BaseDeps])

\* Finish with line 98 returning mpResult.take() whenever the chain got to
\* its last operand.
FinishIgnoringLast(step, ok, res) ==
  /\ trace' = Append(trace, [step |-> step, ok |-> ok])
  /\ pc' = AfterStep(step, ok)
  /\ IF AfterStep(step, ok) # "returned"
       THEN /\ retval' = retval
            /\ mpResult' = res
       ELSE IF StepIndex(step) = Len(Steps)
         THEN /\ retval' = ReturnedArtifact(res)
              /\ mpResult' = NoResult
         ELSE /\ retval' = ReturnedNull
              /\ mpResult' = res

\* The end of a step: its result joins the trace, and the chain goes on to
\* the next step or returns.  res is mpResult after the step.
Finish(step, ok, res) ==
  /\ trace' = Append(trace, [step |-> step, ok |-> ok])
  /\ pc' = AfterStep(step, ok)
  /\ IF AfterStep(step, ok) # "returned"
       THEN /\ retval' = retval
            /\ mpResult' = res
       ELSE IF ok
         THEN /\ retval' = ReturnedArtifact(res)
              /\ mpResult' = NoResult
         ELSE /\ retval' = ReturnedNull
              /\ mpResult' = res

(***************************************************************************)
(* readCacheFile, lines 54-66: the handle check and the artifact.          *)
(***************************************************************************)
FileUsable(f) == f # NoFile /\ f.fdValid

\* ScriptCached::~ScriptCached: the object gives back its raw buffers and
\* its context.
DeleteScriptCached(h, obj) ==
  IF ~obj.present THEN h
  ELSE FreeIfSet(FreeIfSet(FreeIfSet(h, obj.mpStringPoolRaw), obj.mpExportVars),
                 obj.mpExportFuncs)

\* A call starts with nothing observed yet; mpResult.reset deletes the
\* object an earlier, failed call left in mpResult.
readCacheFile ==
  /\ pc \in {"idle", "returned"}
  /\ calls < CallLimit([file |-> mFile, deps |-> mDependencies])
  /\ calls' = calls + 1
  /\ trace' = <<>>
  /\ ioLog' = <<>>
  /\ checked' = {}
  /\ mLog' = <<>>
  /\ UNCHANGED << driver, mFile, filePos, mDependencies, mFileSize, mpHeader,
                  mpCachedDependTable, mpPragmaList, mpFuncTable >>
  /\ IF ~FileUsable(mFile)
       THEN /\ pc' = "returned"
            /\ retval' = ReturnedNull
            /\ mpResult' = mpResult
            /\ heap' = heap
       ELSE /\ heap' = DeleteScriptCached(heap, mpResult)
            /\ \E allocated \in BOOLEAN :
                 IF allocated
                   THEN /\ mpResult' = NewResult
                        /\ pc' = Steps[1]
                        /\ retval' = NotReturned
                   ELSE /\ mpResult' = NoResult
                        /\ pc' = "returned"
                        /\ retval' = ReturnedNull

(***************************************************************************)
(* ~CacheReader, lines 47-52, and after its body the destructor of the     *)
(* member mpResult.                                                        *)
(***************************************************************************)
DestroyCacheReader ==
  /\ pc \in {"idle", "returned"}
  /\ pc' = "destroyed"
  /\ heap' = DeleteScriptCached(
               FreeIfSet(FreeIfSet(FreeIfSet(FreeIfSet(heap, mpHeader),
                                             mpCachedDependTable),
                                   mpPragmaList),
                         mpFuncTable),
               mpResult)
  /\ mpResult' = NoResult
  /\ UNCHANGED << driver, calls, mFile, filePos, mDependencies, mFileSize, mpHeader,
                  mpCachedDependTable, mpPragmaList, mpFuncTable, retval, trace,
                  ioLog, checked, mLog >>

(***************************************************************************)
(* checkFileSize, lines 102-118.                                           *)
(***************************************************************************)
\* FileSizeOk without the comparison of line 112.
FileSizeOkHeaderOnly(size) == ~(size < sizeof_OBCC_Header)

FileSizeOk(size) == ~(size < sizeof_OBCC_Header \/ size < BCC_CONTEXT_SIZE)

checkFileSize ==
  /\ pc = "checkFileSize"
  /\ \E statOk \in BOOLEAN :
       IF ~statOk
         THEN /\ mFileSize' = mFileSize
              /\ mLog' = Append(mLog, <<"stat">>)
              /\ Finish("checkFileSize", FALSE, mpResult)
         ELSE /\ mFileSize' = mFile.size
              /\ mLog' = IF FileSizeOk(mFile.size) THEN mLog
                         ELSE Append(mLog, <<"too small">>)
              /\ Finish("checkFileSize", FileSizeOk(mFile.size), mpResult)
  /\ UNCHANGED << driver, calls, mFile, filePos, mDependencies, mpHeader, mpCachedDependTable,
                  mpPragmaList, mpFuncTable, heap, ioLog, checked >>

(***************************************************************************)
(* FileHandle::seek and FileHandle::read, as lseek and read behave.        *)
(***************************************************************************)
\* lseek: the new position, or -1 for a negative one or a failing device.
SeekResult(offset, deviceOk) == IF deviceOk /\ offset >= 0 THEN offset ELSE 0 - 1

\* read: the number of bytes between the position and the end of the file,
\* at most n; -1 for a failing device.
ReadResult(pos, n, deviceOk) ==
  IF ~deviceOk THEN 0 - 1
  ELSE IF pos >= mFile.size THEN 0
  ELSE IF n <= mFile.size - pos THEN n ELSE mFile.size - pos

\* (ssize_t)n for a size_t n.
ToSsize(n) == ToOff(n)

(***************************************************************************)
(* readHeader, lines 121-140.                                              *)
(***************************************************************************)
readHeader ==
  /\ pc = "readHeader"
  /\ \E seekOk \in BOOLEAN, mallocOk \in BOOLEAN, readOk \in BOOLEAN :
       LET sought == SeekResult(0, seekOk)
           got == ReadResult(0, sizeof_OBCC_Header, readOk)
       IN IF sought # 0
            THEN /\ ioLog' = LogIO("seek", "header", 0, 0)
                 /\ UNCHANGED << filePos, heap, mpHeader >>
                 /\ Finish("readHeader", FALSE, mpResult)
            ELSE IF ~mallocOk
              THEN /\ ioLog' = LogIO("seek", "header", 0, 0)
                   /\ filePos' = 0
                   /\ mpHeader' = 0
                   /\ heap' = heap
                   /\ Finish("readHeader", FALSE, mpResult)
              ELSE /\ ioLog' = Append(LogIO("seek", "header", 0, 0),
                                      IOEntry("read", "header", 0,
                                              sizeof_OBCC_Header, 0))
                   /\ filePos' = IF got > 0 THEN got ELSE 0
                   /\ heap' = Malloc(heap, "header", mFile.header)
                   /\ mpHeader' = Len(heap) + 1
                   /\ Finish("readHeader", got = sizeof_OBCC_Header, mpResult)
  /\ UNCHANGED << driver, calls, mFile, mDependencies, mFileSize, mpCachedDependTable,
                  mpPragmaList, mpFuncTable, checked, mLog >>

Header == heap[mpHeader].data

(***************************************************************************)
(* checkHeader, lines 143-156.                                             *)
(***************************************************************************)
HeaderIdentityOk(h) == h.magic = OBCC_MAGIC /\ h.version = OBCC_VERSION

checkHeader ==
  /\ pc = "checkHeader"
  /\ mLog' = IF Header.magic # OBCC_MAGIC THEN Append(mLog, <<"bad magic">>)
             ELSE IF Header.version # OBCC_VERSION
               THEN Append(mLog, <<"bad version">>)
             ELSE mLog
  /\ Finish("checkHeader", HeaderIdentityOk(Header), mpResult)
  /\ UNCHANGED << driver, calls, mFile, filePos, mDependencies, mFileSize, mpHeader,
                  mpCachedDependTable, mpPragmaList, mpFuncTable, heap, ioLog,
                  checked >>

(***************************************************************************)
(* checkMachineIntType, lines 159-177.                                     *)
(***************************************************************************)
isLittleEndian == TRUE

EndiannessOk(h) ==
  ~( (isLittleEndian /\ h.endianness # "e")
     \/ (~isLittleEndian /\ h.endianness # "E") )

\* IntSizesOk without the comparison of line 171.
IntSizesOkNoPointer(h) ==
  ~( h.sizeof_off_t # sizeof_off_t \/ h.sizeof_size_t # sizeof_size_t )

IntSizesOk(h) ==
  ~( h.sizeof_off_t # sizeof_off_t
     \/ h.sizeof_size_t # sizeof_size_t
     \/ h.sizeof_ptr_t # sizeof_ptr )

checkMachineIntType ==
  /\ pc = "checkMachineIntType"
  /\ mLog' = IF ~EndiannessOk(Header) THEN Append(mLog, <<"endianness">>)
             ELSE IF ~IntSizesOk(Header) THEN Append(mLog, <<"integer size">>)
             ELSE mLog
  /\ Finish("checkMachineIntType", EndiannessOk(Header) /\ IntSizesOk(Header),
            mpResult)
  /\ UNCHANGED << driver, calls, mFile, filePos, mDependencies, mFileSize, mpHeader,
                  mpCachedDependTable, mpPragmaList, mpFuncTable, heap, ioLog,
                  checked >>

(***************************************************************************)
(* checkSectionOffsetAndSize, lines 180-230.                               *)
(***************************************************************************)
\* The possible values of `mFileSize < a + b` for a signed sum: a sum that
\* overflows off_t is undefined, the comparison may then go either way.
SumCompare(fileSize, sum) ==
  IF Overflows(sum) THEN BOOLEAN ELSE {fileSize < sum}

\* CHECK_SECTION_OFFSET, lines 181-200: the set of possible verdicts
\* (TRUE: the macro falls through, FALSE: it returns false).
CheckSectionOffset(fileSize, offset, sizeU) ==
  LET size == ToOff(sizeU)
  IN IF fileSize < offset THEN {FALSE}
     ELSE { ~over /\ IsMultiple(offset, sizeof_int) /\ ~(size < sizeof_size_t) :
              over \in SumCompare(fileSize, offset + size) }

\* The sections the macro is applied to, lines 202-207.
CheckedSections ==
  << "str_pool", "depend_tab", "reloc_tab", "export_var_list",
     "export_func_list", "pragma_list" >>

\* Lines 211-227: the possible verdicts on the context's place.
CheckContextPlace(fileSize, h) ==
  IF fileSize < h.context_offset THEN {FALSE}
  ELSE { ~over /\ IsMultiple(h.context_offset, pagesize)
               /\ IsMultiple(h.context_cached_addr, pagesize) :
           over \in SumCompare(fileSize, h.context_offset + BCC_CONTEXT_SIZE) }

\* The checked sections before the first rejected one.
AcceptedPrefix(verdict) ==
  { CheckedSections[k] : k \in { j \in 1..Len(CheckedSections) :
                                  \A i \in 1..j : verdict[CheckedSections[i]] } }

checkSectionOffsetAndSize ==
  /\ pc = "checkSectionOffsetAndSize"
  /\ \E verdict \in [ {CheckedSections[k] : k \in 1..Len(CheckedSections)} -> BOOLEAN ],
        place \in CheckContextPlace(mFileSize, Header) :
       /\ \A k \in 1..Len(CheckedSections) :
            verdict[CheckedSections[k]] \in
              CheckSectionOffset(mFileSize, Header.offset[CheckedSections[k]],
                                 Header.size[CheckedSections[k]])
       /\ LET all == \A k \in 1..Len(CheckedSections) : verdict[CheckedSections[k]]
          IN /\ checked' = AcceptedPrefix(verdict)
             /\ mLog' = IF ~all THEN Append(mLog, <<"section">>)
                        ELSE IF ~place THEN Append(mLog, <<"context">>)
                        ELSE mLog
             /\ Finish("checkSectionOffsetAndSize", all /\ place, mpResult)
  /\ UNCHANGED << driver, calls, mFile, filePos, mDependencies, mFileSize, mpHeader,
                  mpCachedDependTable, mpPragmaList, mpFuncTable, heap, ioLog >>

(***************************************************************************)
(* CACHE_READER_READ_SECTION, lines 233-254.  The record it yields: ok,    *)
(* the pointer stored in the holder (0: the holder is not assigned), and   *)
(* the heap, file position and operations afterwards.                      *)
(***************************************************************************)
ReadSection(sec, mallocOk, seekOk, readOk) ==
  LET size == Header.size[sec]
      offset == Header.offset[sec]
      sought == SeekResult(offset, seekOk)
      got == ReadResult(offset, size, readOk)
      data == IF got > 0 THEN Slice(mFile.bytes, offset, got) ELSE <<>>
      logM == LogIO("malloc", sec, offset, size)
      logS == Append(logM, IOEntry("seek", sec, offset, 0, 0))
      logR == Append(logS, IOEntry("read", sec, offset, size, 0))
  IN IF ~mallocOk
       THEN [ok |-> FALSE, ptr |-> 0, heap |-> heap, pos |-> filePos, log |-> logM]
     ELSE IF sought = 0 - 1
       THEN [ok |-> FALSE, ptr |-> Len(heap) + 1, heap |-> Malloc(heap, sec, <<>>),
             pos |-> filePos, log |-> logS]
     ELSE [ok |-> (got = ToSsize(size)), ptr |-> Len(heap) + 1,
           heap |-> Malloc(heap, sec, data),
           pos |-> IF got > 0 THEN offset + got ELSE offset, log |-> logR]

(***************************************************************************)
(* Reads through pointers.  A read outside the block it points into is     *)
(* undefined: it yields some value g, or the process stops.                *)
(***************************************************************************)
GarbageWords == {0, 22}
GarbageBytes == {0, 1}
GarbageStrs == {NameA, NameB}
Garbage == [word : GarbageWords, byte : GarbageBytes, str : GarbageStrs]

RdWord(buf, pos, g) == IF InBuf(buf, pos, 4) THEN WordAt(buf, pos) ELSE g.word
RdByte(buf, pos, g) == IF InBuf(buf, pos, 1) THEN ByteAt(buf, pos) ELSE g.byte

RdSignedWord(buf, pos, g) ==
  IF InBuf(buf, pos, 4) THEN SignedWordAt(buf, pos) ELSE g.word

\* The NUL-terminated string at pos; ok is FALSE when it runs off the buffer.
RECURSIVE CStr(_, _)
CStr(buf, pos) ==
  IF ~InBuf(buf, pos, 1) THEN [ok |-> FALSE, str |-> <<>>]
  ELSE IF ByteAt(buf, pos) = 0 THEN [ok |-> TRUE, str |-> <<>>]
  ELSE LET rest == CStr(buf, pos + 1)
       IN [ok |-> rest.ok, str |-> <<ByteAt(buf, pos)>> \o rest.str]

RdStr(buf, pos, g) == IF CStr(buf, pos).ok THEN CStr(buf, pos).str ELSE g.str

(***************************************************************************)
(* readStringPool, lines 257-270.                                          *)
(***************************************************************************)
sizeof_OBCC_String == sizeof_size_t + sizeof_off_t

PoolCount(buf, g) == RdWord(buf, 0, g)
PoolLength(buf, i, g) == RdWord(buf, sizeof_size_t + sizeof_OBCC_String * i, g)
PoolOffset(buf, i, g) ==
  RdSignedWord(buf, sizeof_size_t + sizeof_OBCC_String * i + sizeof_size_t, g)

\* The vector the loop of lines 264-267 builds: str_base + list[i].offset,
\* kept as the offset from str_base.
BuildStringPool(buf, g) ==
  [i \in 1..PoolCount(buf, g) |-> PoolOffset(buf, i - 1, g)]

\* Whether building it reads outside the pool buffer.
BuildStringPoolOOB(buf, g) ==
  IF ~InBuf(buf, 0, sizeof_size_t) THEN TRUE
  ELSE \E i \in 0..(PoolCount(buf, g) - 1) :
         ~InBuf(buf, sizeof_size_t + sizeof_OBCC_String * i, sizeof_OBCC_String)

readStringPool ==
  /\ pc = "readStringPool"
  /\ \E mallocOk \in BOOLEAN, seekOk \in BOOLEAN, readOk \in BOOLEAN, g \in Garbage :
       LET r == ReadSection("str_pool", mallocOk, seekOk, readOk)
           buf == r.heap[r.ptr].data
           raw == IF r.ptr # 0 THEN [mpResult EXCEPT !.mpStringPoolRaw = r.ptr]
                  ELSE mpResult
       IN /\ heap' = r.heap
          /\ filePos' = r.pos
          /\ ioLog' = r.log
          /\ IF ~r.ok
               THEN Finish("readStringPool", FALSE, raw)
               ELSE \/ Finish("readStringPool", TRUE,
                              [raw EXCEPT !.mStringPool = BuildStringPool(buf, g)])
                    \/ /\ BuildStringPoolOOB(buf, g)
                       /\ pc' = "crashed"
                       /\ trace' = trace
                       /\ retval' = retval
                       /\ mpResult' = raw
  /\ UNCHANGED << driver, calls, mFile, mDependencies, mFileSize, mpHeader, mpCachedDependTable,
                  mpPragmaList, mpFuncTable, checked, mLog >>

(***************************************************************************)
(* checkStringPool, lines 273-286.                                         *)
(***************************************************************************)
\* pool[i][poolR->list[i].length], line 279.
Terminator(buf, pool, i, g) ==
  IF i + 1 \in DOMAIN pool
    THEN RdByte(buf, pool[i + 1] + PoolLength(buf, i, g), g)
    ELSE g.byte

TerminatorOOB(buf, pool, i) ==
  IF i + 1 \notin DOMAIN pool THEN TRUE
  ELSE IF ~InBuf(buf, sizeof_size_t + sizeof_OBCC_String * i, sizeof_size_t) THEN TRUE
  ELSE ~InBuf(buf, pool[i + 1] + WordAt(buf, sizeof_size_t + sizeof_OBCC_String * i), 1)

\* The indices the loop of line 278 finds unterminated.
Unterminated(buf, pool, g) ==
  { i \in 0..(PoolCount(buf, g) - 1) : Terminator(buf, pool, i, g) # 0 }

Least(S) == CHOOSE x \in S : \A y \in S : x <= y

\* The indices the loop visits: up to the one it returns false at.
StringPoolVisited(buf, pool, g) ==
  LET bad == Unterminated(buf, pool, g)
  IN IF bad = {} THEN 0..(PoolCount(buf, g) - 1) ELSE 0..Least(bad)

checkStringPool ==
  /\ pc = "checkStringPool"
  /\ \E g \in Garbage :
       LET buf == heap[mpResult.mpStringPoolRaw].data
           pool == mpResult.mStringPool
           bad == Unterminated(buf, pool, g)
       IN \/ /\ mLog' = IF bad = {} THEN mLog
                        ELSE Append(mLog, <<"string not terminated", Least(bad)>>)
             /\ Finish("checkStringPool", bad = {}, mpResult)
          \/ /\ \E i \in StringPoolVisited(buf, pool, g) : TerminatorOOB(buf, pool, i)
             /\ pc' = "crashed"
             /\ UNCHANGED << mLog, trace, retval, mpResult >>
  /\ UNCHANGED << driver, calls, mFile, filePos, mDependencies, mFileSize, mpHeader,
                  mpCachedDependTable, mpPragmaList, mpFuncTable, heap, ioLog,
                  checked >>

(***************************************************************************)
(* readDependencyTable, lines 289-293.                                     *)
(***************************************************************************)
readDependencyTable ==
  /\ pc = "readDependencyTable"
  /\ \E mallocOk \in BOOLEAN, seekOk \in BOOLEAN, readOk \in BOOLEAN :
       LET r == ReadSection("depend_tab", mallocOk, seekOk, readOk)
       IN /\ heap' = r.heap
          /\ filePos' = r.pos
          /\ ioLog' = r.log
          /\ mpCachedDependTable' = IF r.ptr # 0 THEN r.ptr ELSE mpCachedDependTable
          /\ Finish("readDependencyTable", r.ok, mpResult)
  /\ UNCHANGED << driver, calls, mFile, mDependencies, mFileSize, mpHeader, mpPragmaList,
                  mpFuncTable, checked, mLog >>

(***************************************************************************)
(* checkDependency, lines 296-350.                                         *)
(***************************************************************************)
\* The keys of a std::map in iteration order: ascending.
RECURSIVE MapOrder(_)
MapOrder(keys) ==
  IF keys = {} THEN <<>>
  ELSE LET first == CHOOSE k \in keys : \A o \in keys : o = k \/ StrLess(k, o)
       IN <<first>> \o MapOrder(keys \ {first})

sizeof_OBCC_Dependency == sizeof_size_t + sizeof_uint32 + SHA1_LEN

DependCount(tab, g) == RdWord(tab, 0, g)
DependBase(i) == sizeof_size_t + sizeof_OBCC_Dependency * i
DependNameIndex(tab, i, g) == RdWord(tab, DependBase(i), g)
DependType(tab, i, g) == RdWord(tab, DependBase(i) + sizeof_size_t, g)
DependSHA1(tab, i, g) ==
  [b \in 1..SHA1_LEN |->
     RdByte(tab, DependBase(i) + sizeof_size_t + sizeof_uint32 + b - 1, g)]

\* strPool[index]: the pointer the vector holds there.
PoolLookupOOB(pool, index) == index + 1 \notin DOMAIN pool

\* The string strPool[index] points at.
PoolString(buf, pool, index, g) ==
  IF PoolLookupOOB(pool, index) THEN g.str ELSE RdStr(buf, pool[index + 1], g)

\* memcmp(a, b, 20) != 0, line 326.
SHA1Differs(a, b) == \E k \in 1..SHA1_LEN : a[k] # b[k]

\* DependMismatch with the fingerprint compared before the name.
DependMismatchSHA1First(deps, tab, buf, pool, i, g) ==
  LET name == MapOrder(DOMAIN deps)[i + 1]
  IN IF SHA1Differs(deps[name].sha1, DependSHA1(tab, i, g)) THEN "sha1"
     ELSE IF name # PoolString(buf, pool, DependNameIndex(tab, i, g), g) THEN "name"
     ELSE IF deps[name].type # DependType(tab, i, g) THEN "type"
     ELSE "none"

\* The first differing field of the i-th pair, in the order of lines 318-346.
DependMismatch(deps, tab, buf, pool, i, g) ==
  LET name == MapOrder(DOMAIN deps)[i + 1]
  IN IF name # PoolString(buf, pool, DependNameIndex(tab, i, g), g) THEN "name"
     ELSE IF SHA1Differs(deps[name].sha1, DependSHA1(tab, i, g)) THEN "sha1"
     ELSE IF deps[name].type # DependType(tab, i, g) THEN "type"
     ELSE "none"

\* The outcome of checkDependency: ok, or the pair and field it stopped at.
CheckDependencyResult(deps, tab, buf, pool, g) ==
  IF Cardinality(DOMAIN deps) # DependCount(tab, g)
    THEN [ok |-> FALSE, at |-> 0, field |-> "count"]
  ELSE LET bad == { i \in 0..(DependCount(tab, g) - 1) :
                      DependMismatch(deps, tab, buf, pool, i, g) # "none" }
       IN IF bad = {} THEN [ok |-> TRUE, at |-> DependCount(tab, g), field |-> "none"]
          ELSE [ok |-> FALSE, at |-> Least(bad),
                field |-> DependMismatch(deps, tab, buf, pool, Least(bad), g)]

\* Whether looking at the i-th record reads outside a buffer or the vector.
DependRecordOOB(tab, buf, pool, i) ==
  IF ~InBuf(tab, DependBase(i), sizeof_OBCC_Dependency) THEN TRUE
  ELSE IF PoolLookupOOB(pool, WordAt(tab, DependBase(i))) THEN TRUE
  ELSE ~CStr(buf, pool[WordAt(tab, DependBase(i)) + 1]).ok

\* The pairs the loop looks at.
DependVisited(res) ==
  IF res.field = "count" THEN {}
  ELSE IF res.ok THEN 0..(res.at - 1) ELSE 0..res.at

checkDependency ==
  /\ pc = "checkDependency"
  /\ \E g \in Garbage :
       LET tab == heap[mpCachedDependTable].data
           buf == heap[mpResult.mpStringPoolRaw].data
           pool == mpResult.mStringPool
           res == CheckDependencyResult(mDependencies, tab, buf, pool, g)
       IN \/ /\ mLog' = IF res.ok THEN mLog
                        ELSE Append(mLog, <<"dependency", res.field, res.at>>)
             /\ Finish("checkDependency", res.ok, mpResult)
          \/ /\ \E i \in DependVisited(res) : DependRecordOOB(tab, buf, pool, i)
             /\ pc' = "crashed"
             /\ UNCHANGED << mLog, trace, retval, mpResult >>
  /\ UNCHANGED << driver, calls, mFile, filePos, mDependencies, mFileSize, mpHeader,
                  mpCachedDependTable, mpPragmaList, mpFuncTable, heap, ioLog,
                  checked >>

(***************************************************************************)
(* readExportVarList and readExportFuncList, lines 352-363.                *)
(***************************************************************************)
readExportVarList ==
  /\ pc = "readExportVarList"
  /\ \E mallocOk \in BOOLEAN, seekOk \in BOOLEAN, readOk \in BOOLEAN :
       LET r == ReadSection("export_var_list", mallocOk, seekOk, readOk)
       IN /\ heap' = r.heap
          /\ filePos' = r.pos
          /\ ioLog' = r.log
          /\ Finish("readExportVarList", r.ok,
                    IF r.ptr # 0 THEN [mpResult EXCEPT !.mpExportVars = r.ptr]
                    ELSE mpResult)
  /\ UNCHANGED << driver, calls, mFile, mDependencies, mFileSize, mpHeader, mpCachedDependTable,
                  mpPragmaList, mpFuncTable, checked, mLog >>

readExportFuncList ==
  /\ pc = "readExportFuncList"
  /\ \E mallocOk \in BOOLEAN, seekOk \in BOOLEAN, readOk \in BOOLEAN :
       LET r == ReadSection("export_func_list", mallocOk, seekOk, readOk)
       IN /\ heap' = r.heap
          /\ filePos' = r.pos
          /\ ioLog' = r.log
          /\ Finish("readExportFuncList", r.ok,
                    IF r.ptr # 0 THEN [mpResult EXCEPT !.mpExportFuncs = r.ptr]
                    ELSE mpResult)
  /\ UNCHANGED << driver, calls, mFile, mDependencies, mFileSize, mpHeader, mpCachedDependTable,
                  mpPragmaList, mpFuncTable, checked, mLog >>

(***************************************************************************)
(* readPragmaList, lines 366-379.                                          *)
(***************************************************************************)
sizeof_OBCC_Pragma == sizeof_size_t + sizeof_size_t

\* strPool[index] as the pointer the vector holds; some value when the
\* index is outside the vector.
PoolPointer(pool, index, g) ==
  IF PoolLookupOOB(pool, index) THEN g.word ELSE pool[index + 1]

PragmaCount(buf, g) == RdWord(buf, 0, g)
PragmaKeyIndex(buf, i, g) == RdWord(buf, sizeof_size_t + sizeof_OBCC_Pragma * i, g)
PragmaValueIndex(buf, i, g) ==
  RdWord(buf, sizeof_size_t + sizeof_OBCC_Pragma * i + sizeof_size_t, g)

\* The pairs the loop of lines 372-376 pushes.
BuildPragmas(buf, pool, g) ==
  [i \in 1..PragmaCount(buf, g) |->
     << PoolPointer(pool, PragmaKeyIndex(buf, i - 1, g), g),
        PoolPointer(pool, PragmaValueIndex(buf, i - 1, g), g) >>]

BuildPragmasOOB(buf, pool, g) ==
  IF ~InBuf(buf, 0, sizeof_size_t) THEN TRUE
  ELSE \E i \in 0..(PragmaCount(buf, g) - 1) :
         IF ~InBuf(buf, sizeof_size_t + sizeof_OBCC_Pragma * i, sizeof_OBCC_Pragma)
           THEN TRUE
           ELSE \/ PoolLookupOOB(pool, PragmaKeyIndex(buf, i, g))
                \/ PoolLookupOOB(pool, PragmaValueIndex(buf, i, g))

readPragmaList ==
  /\ pc = "readPragmaList"
  /\ \E mallocOk \in BOOLEAN, seekOk \in BOOLEAN, readOk \in BOOLEAN, g \in Garbage :
       LET r == ReadSection("pragma_list", mallocOk, seekOk, readOk)
           buf == r.heap[r.ptr].data
           pool == mpResult.mStringPool
       IN /\ heap' = r.heap
          /\ filePos' = r.pos
          /\ ioLog' = r.log
          /\ mpPragmaList' = IF r.ptr # 0 THEN r.ptr ELSE mpPragmaList
          /\ IF ~r.ok
               THEN Finish("readPragmaList", FALSE, mpResult)
               ELSE \/ Finish("readPragmaList", TRUE,
                              [mpResult EXCEPT !.mPragmas = BuildPragmas(buf, pool, g)])
                    \/ /\ BuildPragmasOOB(buf, pool, g)
                       /\ pc' = "crashed"
                       /\ UNCHANGED << trace, retval, mpResult >>
  /\ UNCHANGED << driver, calls, mFile, mDependencies, mFileSize, mpHeader, mpCachedDependTable,
                  mpFuncTable, checked, mLog >>

(***************************************************************************)
(* readFuncTable, lines 382-394.                                           *)
(***************************************************************************)
sizeof_OBCC_FuncInfo == sizeof_size_t + sizeof_ptr + sizeof_size_t

FuncCount(buf, g) == RdWord(buf, 0, g)
FuncBase(i) == sizeof_size_t + sizeof_OBCC_FuncInfo * i
FuncNameIndex(buf, i, g) == RdWord(buf, FuncBase(i), g)
FuncCachedAddr(buf, i, g) == RdWord(buf, FuncBase(i) + sizeof_size_t, g)
FuncSize(buf, i, g) == RdWord(buf, FuncBase(i) + sizeof_size_t + sizeof_ptr, g)

\* std::map::insert: an entry whose key is present is left as it is.
MapInsert(m, k, v) ==
  IF k \in DOMAIN m THEN m
  ELSE [x \in DOMAIN m \cup {k} |-> IF x = k THEN v ELSE m[x]]

\* The map after the first n records are inserted, lines 387-391.
RECURSIVE BuildFunctions(_, _, _, _, _)
BuildFunctions(buf, strbuf, pool, n, g) ==
  IF n = 0 THEN <<>>
  ELSE MapInsert(BuildFunctions(buf, strbuf, pool, n - 1, g),
                 PoolString(strbuf, pool, FuncNameIndex(buf, n - 1, g), g),
                 [addr |-> FuncCachedAddr(buf, n - 1, g),
                  size |-> FuncSize(buf, n - 1, g)])

BuildFunctionsOOB(buf, strbuf, pool, g) ==
  IF ~InBuf(buf, 0, sizeof_size_t) THEN TRUE
  ELSE \E i \in 0..(FuncCount(buf, g) - 1) :
         IF ~InBuf(buf, FuncBase(i), sizeof_OBCC_FuncInfo) THEN TRUE
         ELSE IF PoolLookupOOB(pool, FuncNameIndex(buf, i, g)) THEN TRUE
         ELSE ~CStr(strbuf, pool[FuncNameIndex(buf, i, g) + 1]).ok

readFuncTable ==
  /\ pc = "readFuncTable"
  /\ \E mallocOk \in BOOLEAN, seekOk \in BOOLEAN, readOk \in BOOLEAN, g \in Garbage :
       LET r == ReadSection("func_table", mallocOk, seekOk, readOk)
           buf == r.heap[r.ptr].data
           strbuf == heap[mpResult.mpStringPoolRaw].data
           pool == mpResult.mStringPool
       IN /\ heap' = r.heap
          /\ filePos' = r.pos
          /\ ioLog' = r.log
          /\ mpFuncTable' = IF r.ptr # 0 THEN r.ptr ELSE mpFuncTable
          /\ IF ~r.ok
               THEN Finish("readFuncTable", FALSE, mpResult)
               ELSE \/ Finish("readFuncTable", TRUE,
                              [mpResult EXCEPT !.mFunctions =
                                 BuildFunctions(buf, strbuf, pool, FuncCount(buf, g), g)])
                    \/ /\ BuildFunctionsOOB(buf, strbuf, pool, g)
                       /\ pc' = "crashed"
                       /\ UNCHANGED << trace, retval, mpResult >>
  /\ UNCHANGED << driver, calls, mFile, mDependencies, mFileSize, mpHeader, mpCachedDependTable,
                  mpPragmaList, checked, mLog >>

(***************************************************************************)
(* readContext, lines 399-413.                                             *)
(***************************************************************************)
\* allocateContext(addr, fd, offset): the address the context now sits at,
\* or 0.  It can place only bytes the file has.
AllocateContext(addr, offset, placed) ==
  IF placed /\ offset >= 0 /\ offset + BCC_CONTEXT_SIZE <= mFile.size THEN addr ELSE 0

\* ContextLoadAddress moved on by a page.
ContextLoadAddressElsewhere(h) == h.context_cached_addr + pagesize

\* The address handed to allocateContext, line 400.
ContextLoadAddress(h) == h.context_cached_addr

readContext ==
  /\ pc = "readContext"
  /\ \E placed \in BOOLEAN :
       LET at == AllocateContext(ContextLoadAddress(Header), Header.context_offset,
                                 placed)
           bytes == IF at # 0
                      THEN Slice(mFile.bytes, Header.context_offset, BCC_CONTEXT_SIZE)
                      ELSE <<>>
       IN /\ ioLog' = Append(ioLog, IOEntry("load", "context", Header.context_offset,
                                            BCC_CONTEXT_SIZE,
                                            ContextLoadAddress(Header)))
          /\ Finish("readContext", at # 0,
                    [mpResult EXCEPT !.mContext = at, !.context = bytes])
  /\ UNCHANGED << driver, calls, mFile, filePos, mDependencies, mFileSize, mpHeader,
                  mpCachedDependTable, mpPragmaList, mpFuncTable, heap, checked,
                  mLog >>

(***************************************************************************)
(* checkContext, lines 416-431.                                            *)
(***************************************************************************)
\* FoldContext with the loop of line 420 ending one word early.
RECURSIVE FoldContextShort(_, _, _, _)
FoldContextShort(sum, ctx, i, n) ==
  IF i >= n - 1 THEN sum
  ELSE FoldContextShort(Xor32(sum, Slice(ctx, sizeof_uint32 * i, sizeof_uint32)),
                        ctx, i + 1, n)

\* sum after the words i .. n-1 of the context are folded in, lines 420-422.
RECURSIVE FoldContext(_, _, _, _)
FoldContext(sum, ctx, i, n) ==
  IF i >= n THEN sum
  ELSE FoldContext(Xor32(sum, Slice(ctx, sizeof_uint32 * i, sizeof_uint32)),
                   ctx, i + 1, n)

ContextSum(checksum, ctx) ==
  FoldContext(checksum, ctx, 0, BCC_CONTEXT_SIZE \div sizeof_uint32)

ContextOk(checksum, ctx) == ~(ContextSum(checksum, ctx) # Zero32)

checkContext ==
  /\ pc = "checkContext"
  /\ LET ok == ContextOk(Header.context_parity_checksum, mpResult.context)
     IN /\ mLog' = IF ok THEN mLog ELSE Append(mLog, <<"checksum">>)
        /\ Finish("checkContext", ok, mpResult)
  /\ UNCHANGED << driver, calls, mFile, filePos, mDependencies, mFileSize, mpHeader,
                  mpCachedDependTable, mpPragmaList, mpFuncTable, heap, ioLog,
                  checked >>

Next ==
  \/ readCacheFile
  \/ DestroyCacheReader
  \/ checkFileSize
  \/ readHeader
  \/ checkHeader
  \/ checkMachineIntType
  \/ checkSectionOffsetAndSize
  \/ readStringPool
  \/ checkStringPool
  \/ readDependencyTable
  \/ checkDependency
  \/ readExportVarList
  \/ readExportFuncList
  \/ readPragmaList
  \/ readFuncTable
  \/ readContext
  \/ checkContext

Spec == Init /\ [][Next]_vars

(***************************************************************************)
(* The bcc_compat tool, tools/bcc_compat/Main.cpp.                         *)
(*                                                                         *)
(* A path is modelled by its parts: whether it starts at the root, its     *)
(* directories, and the stem and the extension of its last component.      *)
(* llvm::sys::fs and llvm::sys::path, Source and RSScript are libraries    *)
(* the tool calls; their results are chosen among what they can return.    *)
(***************************************************************************)
\* "a.bc", "/data/b.bc" and "in/c"
InputPaths ==
  { [abs |-> FALSE, dir |-> <<>>, stem |-> "a", ext |-> "bc"],
    [abs |-> TRUE, dir |-> <<"data">>, stem |-> "b", ext |-> "bc"],
    [abs |-> FALSE, dir |-> <<"in">>, stem |-> "c", ext |-> ""] }

\* -o absent, and -o out/x.so
OutputPaths ==
  { EmptyString, [abs |-> FALSE, dir |-> <<"out">>, stem |-> "x", ext |-> "so"] }

\* -rt-path absent, and -rt-path /rt/libclcore.bc
RuntimePaths ==
  { EmptyString, [abs |-> TRUE, dir |-> <<"rt">>, stem |-> "libclcore", ext |-> "bc"] }

OptLevels == {"0", "1", "2", "3", "s"}

\* llvm::cl::OneOrMore, line 56: the list is never empty.
InputLists == UNION { [1..n -> InputPaths] : n \in 1..MaxInputs }

EXIT_SUCCESS == 0
EXIT_FAILURE == 1

\* The tool before main is entered, its command line parsed.
MainInit ==
  /\ OptInputFilenames \in InputLists
  /\ OptOutputFilename \in OutputPaths
  /\ OptRuntimePath \in RuntimePaths
  /\ OptC \in BOOLEAN
  /\ OptPIC \in BOOLEAN
  /\ OptOptLevel \in OptLevels
  /\ mainPc = "main"
  /\ exitStatus = NotExited
  /\ rscdConfig = NoConfig
  /\ OutputFilename = EmptyString
  /\ fileIndex = 0
  /\ result = 0
  /\ s = 0
  /\ objects = <<>>
  /\ loaded = <<>>
  /\ built = <<>>
  /\ mainTrace = <<>>
  /\ errs = <<>>
  /\ NoReader

\* return of main: nothing of the tool runs afterwards.
Exit(status) ==
  /\ mainPc' = "exited"
  /\ exitStatus' = status

\* One step of main, with whether it let main go on.
MainStep(step, ok) == mainTrace' = Append(mainTrace, [step |-> step, ok |-> ok])

(***************************************************************************)
(* main, lines 246-255: the command line is parsed and -rt-path examined.  *)
(***************************************************************************)
\* the test of line 251 left out
RuntimePathMissingNever(path) == FALSE

RuntimePathMissing(path) == path = EmptyString

main ==
  /\ mainPc = "main"
  /\ MainStep("OptRuntimePath", ~RuntimePathMissing(OptRuntimePath))
  /\ IF RuntimePathMissing(OptRuntimePath)
       THEN /\ errs' = Append(errs, <<"You must set -rt-path">>)
            /\ Exit(EXIT_FAILURE)
       ELSE /\ errs' = errs
            /\ mainPc' = "ConfigCompiler"
            /\ exitStatus' = exitStatus
  /\ UNCHANGED << reader, options, rscdConfig, OutputFilename, fileIndex, result, s,
                  objects, loaded, built >>

(***************************************************************************)
(* ConfigCompiler, lines 167-207, and main's test of it, lines 261-263.    *)
(***************************************************************************)
\* the switch of lines 186-195
OptimizationLevel(level) ==
  CASE level = "0" -> "None"
    [] level = "1" -> "Less"
    [] level = "3" -> "Aggressive"
    [] OTHER -> "Default"

\* lines 183-185: the relocation model is set only under -fPIC
RelocationModel(pic) == IF pic THEN "PIC_" ELSE "unset"

ConfigCompiler ==
  /\ mainPc = "ConfigCompiler"
  /\ \E allocated \in BOOLEAN, configured \in BOOLEAN :
       IF ~allocated
         THEN /\ errs' = Append(errs, <<"Out of memory when create the compiler configuration">>)
              /\ rscdConfig' = rscdConfig
              /\ MainStep("ConfigCompiler", FALSE)
              /\ Exit(EXIT_FAILURE)
         ELSE /\ rscdConfig' = [ set |-> TRUE,
                                 reloc |-> RelocationModel(OptPIC),
                                 opt |-> OptimizationLevel(OptOptLevel) ]
              /\ MainStep("ConfigCompiler", configured)
              /\ IF ~configured
                   THEN /\ errs' = Append(errs, <<"Failed to configure the compiler">>)
                        /\ Exit(EXIT_FAILURE)
                   ELSE /\ errs' = errs
                        /\ mainPc' = "DetermineOutputFilename"
                        /\ exitStatus' = exitStatus
  /\ UNCHANGED << reader, options, OutputFilename, fileIndex, result, s, objects,
                  loaded, built >>

(***************************************************************************)
(* DetermineOutputFilename, lines 209-244, and main's test of its result,  *)
(* lines 265-268.                                                          *)
(***************************************************************************)
DEFAULT_OUTPUT_PATH == [abs |-> TRUE, dir |-> <<"sdcard">>, stem |-> "a", ext |-> "out"]

\* What llvm::sys::fs::current_path can give make_absolute.
CurrentPaths == { [ok |-> TRUE, dir |-> <<"work">>], [ok |-> FALSE, dir |-> <<>>] }

\* llvm::sys::fs::make_absolute: a path from the root is left alone, any
\* other is put under the current directory, which has to be found.
make_absolute(path, current) ==
  IF path.abs THEN [ok |-> TRUE, path |-> path]
  ELSE IF current.ok
         THEN [ok |-> TRUE,
               path |-> [path EXCEPT !.abs = TRUE, !.dir = current.dir \o @]]
         ELSE [ok |-> FALSE, path |-> path]

\* llvm::sys::path::replace_extension
replace_extension(path, ext) == [path EXCEPT !.ext = ext]

\* llvm::sys::path::remove_filename followed by llvm::sys::path::append
remove_filename_append(path, stem, ext) == [path EXCEPT !.stem = stem, !.ext = ext]

\* DetermineOutputFilename without the test of line 217: the name is always
\* derived from the first input file.
DetermineOutputFilenameFirstInput(pOutputPath, current) ==
  IF ~(pOutputPath = EmptyString)
    THEN [value |-> pOutputPath, errs |-> <<>>]
  ELSE LET input_path == OptInputFilenames[1]
           made == make_absolute(input_path, current)
       IN IF ~made.ok
            THEN [value |-> EmptyString,
                  errs |-> << <<"Failed to determine the absolute path", input_path>> >>]
          ELSE IF OptC
            THEN [value |-> replace_extension(made.path, "o"), errs |-> <<>>]
          ELSE [value |-> remove_filename_append(made.path, "a", "out"), errs |-> <<>>]

\* The value returned and the messages written.
DetermineOutputFilename(pOutputPath, current) ==
  IF ~(pOutputPath = EmptyString)
    THEN [value |-> pOutputPath, errs |-> <<>>]
  ELSE IF Len(OptInputFilenames) > 1
    THEN [value |-> DEFAULT_OUTPUT_PATH, errs |-> << <<"Use /sdcard/a.out for output file">> >>]
  ELSE LET input_path == OptInputFilenames[1]
           made == make_absolute(input_path, current)
       IN IF ~made.ok
            THEN [value |-> EmptyString,
                  errs |-> << <<"Failed to determine the absolute path", input_path>> >>]
          ELSE IF OptC
            THEN [value |-> replace_extension(made.path, "o"), errs |-> <<>>]
          ELSE [value |-> remove_filename_append(made.path, "a", "out"), errs |-> <<>>]

main_DetermineOutputFilename ==
  /\ mainPc = "DetermineOutputFilename"
  /\ \E current \in CurrentPaths :
       LET determined == DetermineOutputFilename(OptOutputFilename, current)
       IN /\ OutputFilename' = determined.value
          /\ errs' = errs \o determined.errs
          /\ MainStep("DetermineOutputFilename", determined.value # EmptyString)
          /\ IF determined.value = EmptyString
               THEN Exit(EXIT_FAILURE)
               ELSE /\ mainPc' = "PrepareRSScript"
                    /\ exitStatus' = exitStatus
  /\ UNCHANGED << reader, options, rscdConfig, fileIndex, result, s, objects, loaded,
                  built >>

(***************************************************************************)
(* PrepareRSScript, lines 133-165, one input file at a time, and the       *)
(* assignment of its result to s at line 271.                              *)
(***************************************************************************)
NewSource(file) == [kind |-> "Source", files |-> <<file>>, live |-> TRUE, deletes |-> 0]

\* new RSScript(*source): a script over the module of that source
NewRSScript(file) == [kind |-> "RSScript", files |-> <<file>>, live |-> TRUE, deletes |-> 0]

Delete(objs, p) == [objs EXCEPT ![p].live = FALSE, ![p].deletes = @ + 1]

\* RSScript::mergeSource(source, pPreserveSource = false) returning true:
\* the module is linked into the script's and the source is destroyed.
MergeSource(objs, script, source) ==
  Delete([objs EXCEPT ![script].files = @ \o objs[source].files], source)

\* What the body of the loop can come to for one file: lines 140, 147, 155.
PrepareOutcomes(res) ==
  IF res # 0 THEN {"load failed", "merge failed", "next"}
  ELSE {"load failed", "out of memory", "next"}

\* return of PrepareRSScript, and line 271
ReturnScript(script, ok) ==
  /\ s' = script
  /\ mainPc' = "build"
  /\ MainStep("PrepareRSScript", ok)

PrepareRSScript ==
  /\ mainPc = "PrepareRSScript"
  /\ fileIndex < Len(OptInputFilenames)
  /\ LET input_bitcode == OptInputFilenames[fileIndex + 1]
         source == Len(objects) + 1
         created == Append(objects, NewSource(input_bitcode))
     IN /\ loaded' = Append(loaded, input_bitcode)
        /\ \E outcome \in PrepareOutcomes(result) :
             CASE outcome = "load failed" ->
                    /\ errs' = Append(errs, <<"Failed to load llvm module from file", input_bitcode>>)
                    /\ objects' = objects
                    /\ UNCHANGED << result, fileIndex >>
                    /\ ReturnScript(0, FALSE)
               [] outcome = "merge failed" ->
                    /\ errs' = Append(errs, <<"Failed to merge the llvm module", input_bitcode>>)
                    /\ objects' = Delete(created, source)
                    /\ UNCHANGED << result, fileIndex >>
                    /\ ReturnScript(0, FALSE)
               [] outcome = "out of memory" ->
                    /\ errs' = Append(errs, <<"Out of memory when create script for file", input_bitcode>>)
                    /\ objects' = Delete(created, source)
                    /\ UNCHANGED << result, fileIndex >>
                    /\ ReturnScript(0, FALSE)
               [] outcome = "next" ->
                    /\ errs' = errs
                    /\ fileIndex' = fileIndex + 1
                    /\ IF result # 0
                         THEN /\ objects' = MergeSource(created, result, source)
                              /\ result' = result
                         ELSE /\ objects' = Append(created, NewRSScript(input_bitcode))
                              /\ result' = source + 1
                    /\ IF fileIndex + 1 < Len(OptInputFilenames)
                         THEN UNCHANGED << s, mainPc, mainTrace >>
                         ELSE ReturnScript(result', TRUE)
  /\ UNCHANGED << reader, options, exitStatus, rscdConfig, OutputFilename, built >>

(***************************************************************************)
(* main, lines 272-274: the build and the return.  *s with s NULL is       *)
(* undefined: the tool is taken either to stop there or to go on with a    *)
(* reference to no script.                                                 *)
(***************************************************************************)
BuildOutcomes(script) == IF script = 0 THEN {"crash", "goes on"} ELSE {"goes on"}

build ==
  /\ mainPc = "build"
  /\ \E outcome \in BuildOutcomes(s) :
       IF outcome = "crash"
         THEN /\ mainPc' = "crashed"
              /\ UNCHANGED << exitStatus, built, mainTrace >>
         ELSE \E done \in BOOLEAN :
                /\ built' = Append(built, [ script |-> s, output |-> OutputFilename,
                                            runtime |-> OptRuntimePath, done |-> done ])
                /\ MainStep("build", done)
                /\ Exit(EXIT_SUCCESS)
  /\ UNCHANGED << reader, options, rscdConfig, OutputFilename, fileIndex, result, s,
                  objects, loaded, errs >>

MainNext ==
  \/ main
  \/ ConfigCompiler
  \/ main_DetermineOutputFilename
  \/ PrepareRSScript
  \/ build

MainSpec == MainInit /\ [][MainNext]_vars

(***************************************************************************)
(* Properties.                                                             *)
(***************************************************************************)
\* The ScriptCached object of this call, also after line 98 handed it over.
ResultObj == IF retval.status = "artifact" THEN retval.obj ELSE mpResult

\* The k-th step of the current call has run; the steps' results are looked
\* at while the reader exists.
Ran(k) == pc # "destroyed" /\ Len(trace) >= k
Succeeded(k) == Ran(k) /\ trace[k].ok
Failed(k) == Ran(k) /\ ~trace[k].ok

AllStepsSucceeded ==
  /\ Len(trace) = Len(Steps)
  /\ \A k \in 1..Len(Steps) : trace[k].step = Steps[k] /\ trace[k].ok

\* C1: readCacheFile returns a non-null artifact if and only if every one of
\* the fifteen steps returned success; otherwise the caller receives NULL and
\* no ScriptCached object.
C1_ArtifactIffAllStepsSucceeded ==
  pc = "returned" =>
    /\ (retval.status = "artifact") <=> AllStepsSucceeded
    /\ retval.status # "artifact" => retval = ReturnedNull
    /\ retval.status = "artifact" => retval.obj.present

C1_Witness ==
  /\ pc = "returned"
  /\ retval.status = "artifact"
  /\ Succeeded(Len(Steps))

\* C2: the steps of one call run in the fixed order of lines 68-82, each at
\* most once and none skipped; a step runs only if every earlier one
\* succeeded, and after the first failure the call returns without running
\* another step.
C2_StepsInOrderUntilFirstFailure ==
  /\ Len(trace) <= Len(Steps)
  /\ \A k \in 1..Len(trace) : trace[k].step = Steps[k]
  /\ \A k \in 1..(Len(trace) - 1) : trace[k].ok
  /\ (Len(trace) > 0 /\ ~trace[Len(trace)].ok) => pc \in {"returned", "destroyed"}
  /\ pc \notin {"idle", "returned", "crashed", "destroyed"} =>
       pc = Steps[Len(trace) + 1]

C2_Witness ==
  /\ pc = "returned"
  /\ Failed(StepIndex("checkDependency"))
  /\ Succeeded(StepIndex("readDependencyTable"))

\* C3: for a file smaller than the header or smaller than BCC_CONTEXT_SIZE
\* readCacheFile returns NULL and neither seeks nor reads: no step after
\* checkFileSize runs.
C3_ShortFileRejectedUnread ==
  (mFile.size < sizeof_OBCC_Header \/ mFile.size < BCC_CONTEXT_SIZE) =>
    /\ ioLog = <<>>
    /\ filePos = 0
    /\ pc \in {"idle", "checkFileSize", "returned", "destroyed"}
    /\ pc = "returned" => retval = ReturnedNull

C3_Witness ==
  /\ pc = "returned"
  /\ mFile.size >= sizeof_OBCC_Header
  /\ mFile.size < BCC_CONTEXT_SIZE
  /\ Failed(StepIndex("checkFileSize"))
  /\ mFileSize = mFile.size

\* A header that is not of this format version or not of this machine.
HeaderForeign(h) ==
  \/ h.magic # "oBCC"
  \/ h.version # "001"
  \/ h.endianness # (IF isLittleEndian THEN "e" ELSE "E")
  \/ h.sizeof_off_t # sizeof_off_t
  \/ h.sizeof_size_t # sizeof_size_t
  \/ h.sizeof_ptr_t # sizeof_ptr

\* C4: a header with a foreign magic, version, endianness tag or integer
\* width makes readCacheFile return NULL before any section is read and
\* before the context is loaded.
C4_ForeignHeaderRejectedEarly ==
  HeaderForeign(mFile.header) =>
    /\ \A k \in 1..Len(ioLog) : ioLog[k].what = "header"
    /\ pc \in {"idle", "checkFileSize", "readHeader", "checkHeader",
               "checkMachineIntType", "returned", "destroyed"}
    /\ pc = "returned" => retval = ReturnedNull

C4_Witness ==
  /\ pc = "returned"
  /\ mFile.header.sizeof_ptr_t # sizeof_ptr
  /\ Succeeded(StepIndex("checkHeader"))
  /\ Failed(StepIndex("checkMachineIntType"))

\* Whether the cached dependency table and the caller's dependencies agree:
\* the same number of records, and the i-th record names, through a valid
\* string pool entry, the i-th caller dependency in key order and carries
\* its fingerprint and type.
DependenciesAgree(deps, tab, buf, pool) ==
  IF ~InBuf(tab, 0, sizeof_size_t) THEN FALSE
  ELSE IF WordAt(tab, 0) # Cardinality(DOMAIN deps) THEN FALSE
  ELSE \A i \in 0..(WordAt(tab, 0) - 1) :
         IF ~InBuf(tab, DependBase(i), sizeof_OBCC_Dependency) THEN FALSE
         ELSE IF WordAt(tab, DependBase(i)) + 1 \notin DOMAIN pool THEN FALSE
         ELSE IF ~CStr(buf, pool[WordAt(tab, DependBase(i)) + 1]).ok THEN FALSE
         ELSE LET name == MapOrder(DOMAIN deps)[i + 1]
              IN /\ CStr(buf, pool[WordAt(tab, DependBase(i)) + 1]).str = name
                 /\ \A b \in 1..SHA1_LEN :
                      ByteAt(tab, DependBase(i) + sizeof_size_t + sizeof_uint32 + b - 1)
                        = deps[name].sha1[b]
                 /\ WordAt(tab, DependBase(i) + sizeof_size_t) = deps[name].type

\* C5: checkDependency succeeds if and only if the cached count equals the
\* number of caller dependencies and every i-th pair, caller side in
\* ascending name order, agrees on the name resolved through the string
\* pool, on all 20 fingerprint bytes and on the type tag.
C5_DependencyCheckExact ==
  Ran(StepIndex("checkDependency")) =>
    ( trace[StepIndex("checkDependency")].ok
        <=> DependenciesAgree(mDependencies, heap[mpCachedDependTable].data,
                              heap[ResultObj.mpStringPoolRaw].data,
                              ResultObj.mStringPool) )

\* C6: every section the reader allocates for or reads passed the section
\* bounds check first: it is one of the checked sections, its offset and
\* offset+size do not exceed the file size, its offset is word-aligned and
\* its size is at least one word.
C6_EverySectionReadWasChecked ==
  \A k \in 1..Len(ioLog) :
    (ioLog[k].op \in {"malloc", "read"} /\ ioLog[k].what \in Sections) =>
      /\ ioLog[k].what \in checked
      /\ ioLog[k].offset <= mFileSize
      /\ ioLog[k].offset + ioLog[k].size <= mFileSize
      /\ IsMultiple(ioLog[k].offset, sizeof_int)
      /\ ioLog[k].size >= sizeof_size_t

\* C7: the context loader is invoked only when the context, the
\* BCC_CONTEXT_SIZE bytes at context_offset, fits within the file, and
\* context_offset and the cached load address are multiples of the page size.
C7_ContextLoadedOnlyWhenPlaceable ==
  \A k \in 1..Len(ioLog) :
    ioLog[k].op = "load" =>
      /\ 0 <= ioLog[k].offset
      /\ ioLog[k].offset + BCC_CONTEXT_SIZE <= mFileSize
      /\ IsMultiple(ioLog[k].offset, pagesize)
      /\ IsMultiple(ioLog[k].addr, pagesize)

\* The 32-bit words of a context.
ContextWordsOf(ctx) ==
  [i \in 1..(Len(ctx) \div sizeof_uint32) |->
     Slice(ctx, sizeof_uint32 * (i - 1), sizeof_uint32)]

FlipContextBit(ctx, b, k) == SetByte(ctx, b, FlipBit(ByteAt(ctx, b), k))

\* C8: checkContext succeeds if and only if the XOR of the stored parity
\* checksum with all words of the loaded context is zero; flipping any
\* single bit of a context that passes makes checkContext fail, and
\* readCacheFile returns NULL for the well-formed file with one context bit
\* flipped.
C8_ContextParityExact ==
  /\ Ran(StepIndex("checkContext")) =>
       /\ trace[StepIndex("checkContext")].ok
            <=> ( Xor32(mFile.header.context_parity_checksum,
                        ParityOf(ContextWordsOf(ResultObj.context))) = Zero32 )
       /\ Len(ResultObj.context) = BCC_CONTEXT_SIZE
       /\ trace[StepIndex("checkContext")].ok =>
            \A b \in 0..(BCC_CONTEXT_SIZE - 1), k \in 0..7 :
              ~ContextOk(mFile.header.context_parity_checksum,
                         FlipContextBit(ResultObj.context, b, k))
  /\ (pc = "returned" /\ retval # ReturnedNull) => mFile \notin ContextBitVariants

C8_Witness ==
  /\ pc = "returned"
  /\ Failed(StepIndex("checkContext"))
  /\ retval = ReturnedNull
  /\ mFile \in ContextBitVariants

Loads == { k \in 1..Len(ioLog) : ioLog[k].op = "load" }

\* C9: when the loader fails to place the context at the recorded address,
\* readCacheFile returns NULL; the load was attempted exactly once, at the
\* header's address, and checkContext is not run.
C9_LoadFailureIsFinal ==
  /\ Cardinality(Loads) <= 1
  /\ \A k \in Loads : ioLog[k].addr = mFile.header.context_cached_addr
  /\ Failed(StepIndex("readContext")) =>
       /\ pc \in {"returned", "destroyed"}
       /\ retval = ReturnedNull
       /\ Cardinality(Loads) = 1
       /\ Len(trace) = StepIndex("readContext")
       /\ mpResult.mContext = 0

C9_Witness ==
  /\ pc = "returned"
  /\ mFile = BaseFile
  /\ Failed(StepIndex("readContext"))
  /\ Cardinality(Loads) = 1

\* The entries i < count of a pool buffer that lie in the buffer and have a
\* byte other than NUL at offset_i + length_i of the buffer.
PoolUnterminated(buf) ==
  { i \in 0..(WordAt(buf, 0) - 1) :
      IF ~InBuf(buf, sizeof_size_t + sizeof_OBCC_String * i, sizeof_OBCC_String)
        THEN FALSE
        ELSE LET at == SignedWordAt(buf, sizeof_size_t + sizeof_OBCC_String * i
                                           + sizeof_size_t)
                       + WordAt(buf, sizeof_size_t + sizeof_OBCC_String * i)
             IN IF ~InBuf(buf, at, 1) THEN FALSE ELSE ByteAt(buf, at) # 0 }

\* C10: checkStringPool fails if and only if some pool entry i < count has a
\* byte other than NUL at position offset_i + length_i of the pool buffer,
\* and the index it reports is the smallest such i.
C10_StringPoolCheckExact ==
  Ran(StepIndex("checkStringPool")) =>
    LET bad == PoolUnterminated(heap[ResultObj.mpStringPoolRaw].data)
    IN IF trace[StepIndex("checkStringPool")].ok THEN bad = {}
       ELSE IF bad = {} THEN FALSE
       ELSE \E k \in 1..Len(mLog) :
              mLog[k] = <<"string not terminated", Least(bad)>>

\* Whether materializing and checking the pool held in buf touches a byte
\* outside buf: the count, an entry record, or the terminator of an entry
\* the loop of checkStringPool visits.
PoolTouchesOutside(buf, pool) ==
  \E g \in Garbage :
    \/ BuildStringPoolOOB(buf, g)
    \/ \E i \in StringPoolVisited(buf, pool, g) : TerminatorOOB(buf, pool, i)

\* C11: while the string pool is materialized and checked, every byte the
\* reader touches lies inside the pool buffer: the process does not stop in
\* readStringPool or checkStringPool, and once checkStringPool ran, the
\* count, every entry record and every terminator position it looked at is
\* inside the buffer.
C11_StringPoolReadsInsideBuffer ==
  /\ ~( pc = "crashed"
        /\ Len(trace) \in { StepIndex("readStringPool") - 1,
                            StepIndex("checkStringPool") - 1 } )
  /\ Ran(StepIndex("checkStringPool")) =>
       ~PoolTouchesOutside(heap[ResultObj.mpStringPoolRaw].data,
                           ResultObj.mStringPool)

\* Whether the i-th record of a table with records of recordSize bytes lies
\* inside the table's buffer.
RecordInside(buf, i, recordSize) ==
  InBuf(buf, sizeof_size_t + recordSize * i, recordSize)

\* Whether every string pool index the three readers took from their
\* records was inside the pool, and every such record inside its buffer.
DependIndicesValid(deps, tab, buf, pool) ==
  \A g \in Garbage :
    \A i \in DependVisited(CheckDependencyResult(deps, tab, buf, pool, g)) :
      IF ~RecordInside(tab, i, sizeof_OBCC_Dependency) THEN FALSE
      ELSE ~PoolLookupOOB(pool, WordAt(tab, DependBase(i)))

PragmaIndicesValid(buf, pool) ==
  IF ~InBuf(buf, 0, sizeof_size_t) THEN FALSE
  ELSE \A i \in 0..(WordAt(buf, 0) - 1) :
         IF ~RecordInside(buf, i, sizeof_OBCC_Pragma) THEN FALSE
         ELSE /\ ~PoolLookupOOB(pool, WordAt(buf, sizeof_size_t + sizeof_OBCC_Pragma * i))
              /\ ~PoolLookupOOB(pool, WordAt(buf, sizeof_size_t + sizeof_OBCC_Pragma * i
                                                    + sizeof_size_t))

FuncIndicesValid(buf, pool) ==
  IF ~InBuf(buf, 0, sizeof_size_t) THEN FALSE
  ELSE \A i \in 0..(WordAt(buf, 0) - 1) :
         IF ~RecordInside(buf, i, sizeof_OBCC_FuncInfo) THEN FALSE
         ELSE ~PoolLookupOOB(pool, WordAt(buf, FuncBase(i)))

\* C12: every string pool index the dependency check, the pragma list reader
\* and the function table reader subscript the pool with is less than the
\* number of pool entries, and the record it comes from lies inside its
\* section buffer.
C12_PoolIndicesValid ==
  /\ Ran(StepIndex("checkDependency")) =>
       DependIndicesValid(mDependencies, heap[mpCachedDependTable].data,
                          heap[ResultObj.mpStringPoolRaw].data,
                          ResultObj.mStringPool)
  /\ Succeeded(StepIndex("readPragmaList")) =>
       PragmaIndicesValid(heap[mpPragmaList].data, ResultObj.mStringPool)
  /\ Succeeded(StepIndex("readFuncTable")) =>
       FuncIndicesValid(heap[mpFuncTable].data, ResultObj.mStringPool)

\* The buffers the reader's own members point at.
ReaderHeld == {mpHeader, mpCachedDependTable, mpPragmaList, mpFuncTable} \ {0}

\* C13: when a step of readCacheFile fails, what the earlier steps allocated
\* is released by the time the call returns NULL: no buffer a member of the
\* reader points at is still allocated, and the reader holds no partially
\* built ScriptCached (with its buffers and mapped context) any more.
C13_FailureReleasesEverything ==
  (pc = "returned" /\ retval = ReturnedNull /\ Len(trace) > 0) =>
    /\ \A p \in ReaderHeld : ~heap[p].live
    /\ ~mpResult.present

\* The kinds of buffer the reader itself owns.
ReaderOwnedKinds == {"header", "depend_tab", "pragma_list", "func_table"}

\* C16: after any sequence of readCacheFile calls on one reader and its
\* destruction, every header buffer and every dependency table, pragma list
\* and function table buffer allocated during the calls has been freed
\* exactly once; none is ever freed twice.
C16_ReaderBuffersFreedExactlyOnce ==
  /\ \A p \in DOMAIN heap : heap[p].frees <= 1
  /\ pc = "destroyed" =>
       \A p \in DOMAIN heap :
         heap[p].kind \in ReaderOwnedKinds => heap[p].frees = 1

\* The number of records a table buffer declares, 0 if it holds no count.
DeclaredCount(buf) == IF InBuf(buf, 0, sizeof_size_t) THEN WordAt(buf, 0) ELSE 0

\* The records of the function table in buf that lie in buf and name a
\* string of the pool.
NamedFuncRecords(buf, strbuf, pool) ==
  { i \in 0..(DeclaredCount(buf) - 1) :
      IF ~RecordInside(buf, i, sizeof_OBCC_FuncInfo) THEN FALSE
      ELSE IF PoolLookupOOB(pool, WordAt(buf, FuncBase(i))) THEN FALSE
      ELSE CStr(strbuf, pool[WordAt(buf, FuncBase(i)) + 1]).ok }

FuncRecordName(buf, strbuf, pool, i) ==
  CStr(strbuf, pool[WordAt(buf, FuncBase(i)) + 1]).str

\* C14: after a successful open the function mapping has exactly the names
\* occurring in the function table, every record of the table has a name,
\* and each name maps to the (cached_addr, size) of the first record
\* carrying it.
C14_FunctionMapFirstRecordWins ==
  (pc = "returned" /\ retval.status = "artifact") =>
    LET buf == heap[mpFuncTable].data
        strbuf == heap[retval.obj.mpStringPoolRaw].data
        pool == retval.obj.mStringPool
        recs == NamedFuncRecords(buf, strbuf, pool)
        fns == retval.obj.mFunctions
    IN /\ recs = 0..(DeclaredCount(buf) - 1)
       /\ DOMAIN fns = { FuncRecordName(buf, strbuf, pool, i) : i \in recs }
       /\ \A name \in DOMAIN fns :
            LET first == Least({ i \in recs :
                                   FuncRecordName(buf, strbuf, pool, i) = name })
            IN fns[name] =
                 [ addr |-> WordAt(buf, FuncBase(first) + sizeof_size_t),
                   size |-> WordAt(buf, FuncBase(first) + sizeof_size_t + sizeof_ptr) ]

\* C15: once the section bounds check has passed, every section it checked
\* has, as mathematical integers, 0 <= offset and offset + size <= file size.
C15_CheckedSectionsInsideFile ==
  Succeeded(StepIndex("checkSectionOffsetAndSize")) =>
    \A k \in 1..Len(CheckedSections) :
      /\ 0 <= mFile.header.offset[CheckedSections[k]]
      /\ mFile.header.offset[CheckedSections[k]]
           + mFile.header.size[CheckedSections[k]] <= mFile.size

\* The fields in which the i-th caller dependency and the i-th cached record
\* differ, the record's fields as a read with outcome g finds them.
PairDifferences(deps, tab, buf, pool, i, g) ==
  LET name == MapOrder(DOMAIN deps)[i + 1]
  IN (IF name # PoolString(buf, pool, DependNameIndex(tab, i, g), g)
        THEN {"name"} ELSE {})
     \cup (IF \E b \in 1..SHA1_LEN : deps[name].sha1[b] # DependSHA1(tab, i, g)[b]
             THEN {"sha1"} ELSE {})
     \cup (IF deps[name].type # DependType(tab, i, g) THEN {"type"} ELSE {})

\* The field a mismatch is classified by: name before fingerprint before type.
FirstDifference(fields) ==
  IF "name" \in fields THEN "name"
  ELSE IF "sha1" \in fields THEN "sha1"
  ELSE "type"

\* Whether reporting field at pair i is what the claim asks for.
RightlyClassified(deps, tab, buf, pool, field, i, g) ==
  IF Cardinality(DOMAIN deps) # DependCount(tab, g) THEN field = "count"
  ELSE /\ field # "count"
       /\ i \in 0..(DependCount(tab, g) - 1)
       /\ \A j \in 0..(i - 1) : PairDifferences(deps, tab, buf, pool, j, g) = {}
       /\ PairDifferences(deps, tab, buf, pool, i, g) # {}
       /\ field = FirstDifference(PairDifferences(deps, tab, buf, pool, i, g))

\* The mismatches checkDependency reported in this call.
DependencyReports ==
  { k \in 1..Len(mLog) : mLog[k][1] = "dependency" }

\* C17: a failing checkDependency reports one mismatch: the count when the
\* counts differ, before any pair is compared; otherwise the first pair in
\* iteration order that differs, all pairs before it agreeing in every field,
\* by the first field in the order name, fingerprint, type in which it
\* differs.  A passing one reports none.
C17_FirstMismatchClassified ==
  Ran(StepIndex("checkDependency")) =>
    IF trace[StepIndex("checkDependency")].ok THEN DependencyReports = {}
    ELSE /\ Cardinality(DependencyReports) = 1
         /\ \A k \in DependencyReports :
              \E g \in Garbage :
                RightlyClassified(mDependencies, heap[mpCachedDependTable].data,
                                  heap[mpResult.mpStringPoolRaw].data,
                                  mpResult.mStringPool, mLog[k][2], mLog[k][3], g)

C17_Witness ==
  /\ Failed(StepIndex("checkDependency"))
  /\ mFile = BaseFile
  /\ \E k \in DependencyReports :
       /\ mLog[k][2] = "name"
       /\ {"name", "sha1"} \subseteq
            PairDifferences(mDependencies, heap[mpCachedDependTable].data,
                            heap[mpResult.mpStringPoolRaw].data,
                            mpResult.mStringPool, mLog[k][3], CHOOSE g \in Garbage : TRUE)

\* C18: after a successful open the pragma sequence has as many elements as
\* the pragma list's count, and its i-th element is the pair of pool entries
\* the i-th record's key and value indices select, in file order; the pairs
\* are in the artifact when the open returns.
C18_PragmasResolvedInOrder ==
  (pc = "returned" /\ retval.status = "artifact") =>
    LET buf == heap[mpPragmaList].data
        pool == retval.obj.mStringPool
        pragmas == retval.obj.mPragmas
    IN /\ Len(pragmas) = DeclaredCount(buf)
       /\ PragmaIndicesValid(buf, pool)
       /\ \A i \in 0..(DeclaredCount(buf) - 1) :
            pragmas[i + 1] =
              << pool[WordAt(buf, sizeof_size_t + sizeof_OBCC_Pragma * i) + 1],
                 pool[WordAt(buf, sizeof_size_t + sizeof_OBCC_Pragma * i
                                    + sizeof_size_t) + 1] >>

(***************************************************************************)
(* Properties of the bcc_compat tool.                                      *)
(***************************************************************************)
\* PrepareRSScript has returned, and what it returned.
Prepared(ok) ==
  \E k \in 1..Len(mainTrace) :
    mainTrace[k].step = "PrepareRSScript" /\ mainTrace[k].ok = ok

\* C19: main calls build only with a script PrepareRSScript returned, not
\* with NULL; it returns EXIT_SUCCESS only after a script was prepared and
\* the build of it succeeded; and when PrepareRSScript returned NULL main
\* returns EXIT_FAILURE and has built nothing.
C19_BuildOnlyPreparedScript ==
  /\ \A k \in 1..Len(built) : built[k].script # 0 /\ built[k].script = result
  /\ exitStatus = EXIT_SUCCESS =>
       /\ Prepared(TRUE)
       /\ Len(built) = 1
       /\ built[1].done
  /\ (Prepared(FALSE) /\ mainPc # "build") =>
       /\ mainPc = "exited"
       /\ exitStatus = EXIT_FAILURE
       /\ built = <<>>

\* The three tests main makes before it prepares a script, in their order.
EarlyChecks == << "OptRuntimePath", "ConfigCompiler", "DetermineOutputFilename" >>

\* The check k of EarlyChecks failed: main's own record of it, and for the
\* first and the last what the check looks at.
EarlyCheckFailed(k) ==
  /\ Len(mainTrace) >= k
  /\ mainTrace[k].step = EarlyChecks[k]
  /\ ~mainTrace[k].ok

Min(a, b) == IF a < b THEN a ELSE b

\* C20: when -rt-path is empty, the configuration of the compiler fails or
\* no output filename is determined, main returns EXIT_FAILURE having
\* loaded no input file and called no build; the three are tested in this
\* order, each only after the ones before it passed.
C20_EarlyFailuresBuildNothing ==
  /\ \A k \in 1..Min(Len(mainTrace), 3) :
       /\ mainTrace[k].step = EarlyChecks[k]
       /\ \A j \in 1..(k - 1) : mainTrace[j].ok
  /\ (OptRuntimePath = EmptyString /\ mainPc # "main") => EarlyCheckFailed(1)
  /\ (Len(mainTrace) >= 3 /\ OutputFilename = EmptyString) => EarlyCheckFailed(3)
  /\ \A k \in 1..3 :
       EarlyCheckFailed(k) =>
         /\ mainPc = "exited"
         /\ exitStatus = EXIT_FAILURE
         /\ Len(mainTrace) = k
         /\ loaded = <<>>
         /\ objects = <<>>
         /\ built = <<>>

\* Each of the three failures has happened in some run: here the last one,
\* after the two checks before it passed.
C20_Witness ==
  /\ EarlyCheckFailed(3)
  /\ mainTrace[1].ok
  /\ mainTrace[2].ok
  /\ exitStatus = EXIT_FAILURE

\* DetermineOutputFilename has returned.
Determined == Len(mainTrace) >= 3 /\ mainTrace[3].step = "DetermineOutputFilename"

\* The directories an absolute form of the path can have: its own when it
\* starts at the root, else its own under a current directory.
AbsoluteDirs(path) ==
  IF path.abs THEN {path.dir}
  ELSE {c.dir \o path.dir : c \in {c \in CurrentPaths : c.ok}}

\* The message of line 227 was written for the path.
AbsoluteFailed(path) ==
  \E k \in 1..Len(errs) : errs[k] = <<"Failed to determine the absolute path", path>>

LiveObjects(kind) ==
  { p \in 1..Len(objects) : objects[p].kind = kind /\ objects[p].live }

\* C22: PrepareRSScript takes the input files in the order of the command
\* line; the first creates the script and every later one is merged into
\* it; it returns NULL at the first file that fails to load or to merge or
\* for which the script cannot be allocated, having taken no later file,
\* and then neither that file's source nor the script built so far is
\* still allocated.
C22_PrepareInOrderAndCleanUp ==
  /\ Len(loaded) <= Len(OptInputFilenames)
  /\ \A k \in 1..Len(loaded) : loaded[k] = OptInputFilenames[k]
  /\ result # 0 =>
       /\ objects[result].kind = "RSScript"
       /\ objects[result].files = SubSeq(OptInputFilenames, 1, fileIndex)
  /\ \A p \in 1..Len(objects) : objects[p].deletes <= 1
  /\ Prepared(TRUE) =>
       /\ loaded = OptInputFilenames
       /\ s = result
       /\ s \in LiveObjects("RSScript")
  /\ Prepared(FALSE) =>
       /\ s = 0
       /\ Len(loaded) = fileIndex + 1
       /\ LiveObjects("RSScript") = {}
       /\ objects # <<>> =>
            (objects[Len(objects)].kind = "Source" => ~objects[Len(objects)].live)

====
